---------------------------- MODULE Spec2Model ----------------------------
(***************************************************************************)
(* Model of monitor.py, the Reddit monitor: one short-lived batch run per  *)
(* invocation (main), with the ledger file (seen_posts.json) and the       *)
(* output file (relevant_posts.json) as the only state that survives a     *)
(* run.  Python strings are TLA+ strings; a character of s is              *)
(* SubSeq(s, i, i).                                                        *)
(***************************************************************************)
EXTENDS Integers, Sequences, FiniteSets, TLC

VARIABLES
    stateFile,       \* STATE_FILE on disk: NoFile or the JSON list save_seen wrote
    outputFile,      \* OUTPUT_FILE on disk: NoFile or the JSON list main wrote
    pc,              \* position of the run inside main ("idle": no run in progress)
    sub,             \* index into SUBREDDITS of the channel being processed
    seen,            \* main's local `seen`
    new_seen,        \* main's local `new_seen`
    relevant_posts,  \* main's local `relevant_posts`
    now,             \* the UTC clock, seconds since the epoch; read once per run, a run
                     \* being short against the threshold of MAX_AGE_MINUTES
    USE_LLM_FILTER,  \* bool(OPENAI_API_KEY): static configuration of the environment
    run,             \* number of runs started so far
    returned,        \* what main() of this run returned (NoValue until it returns)
    llmIn,           \* history: the list handed to the last llm_filter call
    llmResp,         \* history: what the classification call of that call did
    lastFetch,       \* history: the outcome of the fetch just made (NoValue outside the loops)
    fetched,         \* history: keys of the records the fetches of this run returned
    missed,          \* history: keys of the upstream records whose fetch failed in this run
    prevFetched,     \* history: fetched and missed of the previous run, if it reached save_seen
    loaded,          \* history: the ledger file as load_seen found it in this run
    arg              \* the arguments of a function called on its own (NoValue in a run of main)

vars == << stateFile, outputFile, pc, sub, seen, new_seen, relevant_posts, now,
           USE_LLM_FILTER, run, returned, llmIn, llmResp, lastFetch, fetched,
           missed, prevFetched, loaded, arg >>

-----------------------------------------------------------------------------
(* Bounds of the model *)

MaxBatch == 3        \* longest candidate list handed to llm_filter on its own
MaxReplyLen == 3     \* longest classifier reply enumerated character by character
MaxPage == 1         \* longest page a fetch returns
MaxRuns == 2         \* number of runs of main
MaxSlack == 1        \* how far below the cap of 5000 a full-ish ledger file starts
StartTime == 1700000000  \* the clock when the first run starts

-----------------------------------------------------------------------------
(* Configuration *)

SUBREDDITS ==
    << "NYCapartments", "movingtoNYC", "brooklyn", "astoria" >>

MAX_AGE_MINUTES == 120

KEYWORDS ==
    << "streeteasy", "street easy", "apartment hunting",
       "apartment search", "apartment hunt", "new listing",
       "new listings", "notifications for", "get notified",
       "set up alerts", "be the first", "act fast",
       "move fast", "first to respond", "first to inquire",
       "how do i find apartments", "how to find apartments", "tips for finding",
       "looking for an apartment", "looking for a place to rent", "broker fee",
       "no fee apartment", "moving to nyc soon", "relocating to nyc",
       "moving to new york", "apartment tips", "rental search tips",
       "refreshing streeteasy", "checking streeteasy", "streeteasy notifications",
       "competitive rental", "competitive market", "beat other applicants",
       "getting outbid" >>

SKIP_KEYWORDS ==
    << "roommate", "room for rent", "looking for roommate",
       "sublease", "sublet" >>

NoFile == [exists |-> FALSE]
NoValue == [none |-> TRUE]

-----------------------------------------------------------------------------
(* Python's str operations, character by character *)

Char(s, i) == SubSeq(s, i, i)

Whitespace == {" ", "\t", "\n"}

AsciiDigits == "0123456789"
LowerAlpha == "abcdefghijklmnopqrstuvwxyz"
UpperAlpha == "ABCDEFGHIJKLMNOPQRSTUVWXYZ"

\* characters str.isdigit() accepts: the decimal digits and, among others, the
\* superscript digits, which int() does not accept
IsDigitChar(c) ==
    \/ \E i \in 1..10 : Char(AsciiDigits, i) = c
    \/ c \in {"²", "³"}

IsAsciiDigit(c) == \E i \in 1..10 : Char(AsciiDigits, i) = c

Translate(c, from, to) ==
    IF \E i \in 1..Len(from) : Char(from, i) = c
    THEN Char(to, CHOOSE i \in 1..Len(from) : Char(from, i) = c)
    ELSE c

RECURSIVE MapChars(_, _, _)
MapChars(s, from, to) ==
    IF s = "" THEN ""
    ELSE Translate(Char(s, 1), from, to) \o MapChars(Tail(s), from, to)

\* str.upper() and str.lower()
Upper(s) == MapChars(s, LowerAlpha, UpperAlpha)
Lower(s) == MapChars(s, UpperAlpha, LowerAlpha)

RECURSIVE LStrip(_)
LStrip(s) ==
    IF s # "" /\ Char(s, 1) \in Whitespace THEN LStrip(Tail(s)) ELSE s

RECURSIVE RStrip(_)
RStrip(s) ==
    IF s # "" /\ Char(s, Len(s)) \in Whitespace
    THEN RStrip(SubSeq(s, 1, Len(s) - 1))
    ELSE s

\* str.strip()
Strip(s) == LStrip(RStrip(s))

\* s.replace(c, "") for a one-character c
RECURSIVE Remove(_, _)
Remove(s, c) ==
    IF s = "" THEN ""
    ELSE (IF Char(s, 1) = c THEN "" ELSE Char(s, 1)) \o Remove(Tail(s), c)

\* s.split(c) for a one-character c: always at least one piece
RECURSIVE Split(_, _)
Split(s, c) ==
    IF \E i \in 1..Len(s) : Char(s, i) = c
    THEN LET k == CHOOSE i \in 1..Len(s) :
                     /\ Char(s, i) = c
                     /\ \A j \in 1..(i - 1) : Char(s, j) # c
         IN  << SubSeq(s, 1, k - 1) >> \o Split(SubSeq(s, k + 1, Len(s)), c)
    ELSE << s >>

\* str.isdigit()
IsDigit(s) == s # "" /\ \A i \in 1..Len(s) : IsDigitChar(Char(s, i))

\* int(s) raises ValueError
IntRaises(s) == s = "" \/ \E i \in 1..Len(s) : ~IsAsciiDigit(Char(s, i))

\* int(s) for a string of decimal digits
RECURSIVE IntOf(_)
IntOf(s) ==
    IF s = "" THEN 0
    ELSE IntOf(SubSeq(s, 1, Len(s) - 1)) * 10
         + ((CHOOSE i \in 1..10 : Char(AsciiDigits, i) = Char(s, Len(s))) - 1)

\* kw in text
Contains(text, kw) ==
    \E i \in 1..(Len(text) - Len(kw) + 1) : SubSeq(text, i, i + Len(kw) - 1) = kw

Get(d, field, default) == IF field \in DOMAIN d THEN d[field] ELSE default

-----------------------------------------------------------------------------
(* llm_filter *)

\* the token test of the list comprehension: x.strip().isdigit()
IsDigitToken(x) == IsDigit(Strip(x))

\* the tokens the comprehension keeps: the pieces between commas, spaces removed
KeptTokens(response_text) ==
    SelectSeq(Split(Remove(response_text, " "), ","), IsDigitToken)

\* the guard written with <= instead of <
InRangeInclusive(i, posts) == i <= Len(posts)

\* the guard of the second comprehension: i < len(posts)
InRange(i, posts) == i < Len(posts)

RECURSIVE PickIndices(_, _)
PickIndices(posts, indices) ==
    IF indices = << >> THEN << >>
    ELSE (IF InRange(Head(indices), posts)
          THEN << posts[Head(indices) + 1] >>
          ELSE << >>) \o PickIndices(posts, Tail(indices))

\* the inner try raises: int() rejects a kept token, or posts[i] is out of range
ParseRaises(posts, response_text) ==
    LET kept == KeptTokens(response_text) IN
    \/ \E k \in 1..Len(kept) : IntRaises(Strip(kept[k]))
    \/ \E k \in 1..Len(kept) :
          /\ ~IntRaises(Strip(kept[k]))
          /\ InRange(IntOf(Strip(kept[k])), posts)
          /\ IntOf(Strip(kept[k])) >= Len(posts)

\* the reply handling inside the with block, lines 118-133
FilterByReply(posts, content) ==
    LET response_text == Strip(content) IN
    IF Upper(response_text) = "NONE" THEN << >>
    ELSE IF ParseRaises(posts, response_text) THEN posts
    ELSE LET kept == KeptTokens(response_text)
             indices == [k \in 1..Len(kept) |-> IntOf(Strip(kept[k]))]
         IN  PickIndices(posts, indices)

\* resp: what urlopen and the reading of the reply did: [ok |-> FALSE] for any
\* exception (service error, timeout, reply without the expected fields), or
\* [ok |-> TRUE, content |-> the reply text]
llm_filter(posts, use, resp) ==
    IF posts = << >> \/ ~use THEN posts
    ELSE IF ~resp.ok THEN posts
    ELSE FilterByReply(posts, resp.content)

-----------------------------------------------------------------------------
(* The ledger.  A ledger is [keys, old]: the keys of the records of this   *)
(* model, and the number of other keys in it: keys of records older runs   *)
(* observed and that no fetch returns any more.  Those are interchangeable, *)
(* so only their number is kept.                                            *)

Size(ledger) == Cardinality(ledger.keys) + ledger.old

EmptyLedger == [keys |-> {}, old |-> 0]

\* load_seen: set(json.load(f)) if the file exists, set() otherwise
load_seen(file) ==
    IF file.exists THEN [keys |-> file.keys, old |-> file.old] ELSE EmptyLedger

\* seen.update(new_seen)
Update(ledger, added) == [ledger EXCEPT !.keys = @ \cup added]

\* save_seen without the slice: the whole set is written
RecentUncut(ledger) == { ledger }

\* list(seen)[-5000:]: the last 5000 elements in the iteration order of a set
\* of str.  That order is the order of the hash table's slots, and str hashes
\* are salted per process, so the elements before the last 5000 can be any
\* Size - 5000 elements of the set: `dropped` of the keys, the rest old ones.
Recent(ledger) ==
    IF Size(ledger) <= 5000 THEN { ledger }
    ELSE LET excess == Size(ledger) - 5000 IN
         { [keys |-> ledger.keys \ dropped,
            old  |-> ledger.old - (excess - Cardinality(dropped))] :
             dropped \in { d \in SUBSET ledger.keys :
                             /\ Cardinality(d) <= excess
                             /\ excess - Cardinality(d) <= ledger.old } }

\* save_seen: the lists json.dump may write
save_seen(ledger) ==
    { [exists |-> TRUE, keys |-> r.keys, old |-> r.old] : r \in Recent(ledger) }

-----------------------------------------------------------------------------
(* fetch_subreddit, fetch_comments *)

\* fetch_subreddit without its except clause: the exception leaves the function
fetch_subreddit_raising(outcome) ==
    IF outcome.ok THEN [raised |-> FALSE, value |-> outcome.children]
    ELSE [raised |-> TRUE, value |-> << >>]

\* outcome: [ok |-> FALSE] for any exception inside the try (network or service
\* error, timeout, a body that is not JSON), [ok |-> TRUE, children |-> page].
\* The result says whether the call raised, and the list it returned if not.
fetch_subreddit(outcome) ==
    IF outcome.ok THEN [raised |-> FALSE, value |-> outcome.children]
    ELSE [raised |-> FALSE, value |-> << >>]

fetch_comments(outcome) ==
    IF outcome.ok THEN [raised |-> FALSE, value |-> outcome.children]
    ELSE [raised |-> FALSE, value |-> << >>]

-----------------------------------------------------------------------------
(* is_relevant, process_post *)

\* the keywords of a list that occur in a text, in the order of the list
RECURSIVE Matching(_, _)
Matching(kws, text) ==
    IF kws = << >> THEN << >>
    ELSE (IF Contains(text, Head(kws)) THEN << Head(kws) >> ELSE << >>)
         \o Matching(Tail(kws), text)

\* is_relevant with the gate of a keyword filter: at least one positive keyword
is_relevant_keyword_required(text) ==
    LET text_lower == Lower(text)
        matched    == Matching(KEYWORDS, text_lower)
    IN  IF \E k \in 1..Len(SKIP_KEYWORDS) : Contains(text_lower, SKIP_KEYWORDS[k])
        THEN [relevant |-> FALSE, matched |-> << >>]
        ELSE [relevant |-> matched # << >>, matched |-> matched]

is_relevant(text) ==
    LET text_lower == Lower(text) IN
    IF \E k \in 1..Len(SKIP_KEYWORDS) : Contains(text_lower, SKIP_KEYWORDS[k])
    THEN [relevant |-> FALSE, matched |-> << >>]
    ELSE [relevant |-> TRUE, matched |-> Matching(KEYWORDS, text_lower)]

\* the age test on whole minutes
TooOldWholeMinutes(created_utc, now_utc) ==
    (now_utc - created_utc) \div 60 > MAX_AGE_MINUTES

\* the test written with >= instead of >
TooOldAtThreshold(created_utc, now_utc) == now_utc - created_utc >= MAX_AGE_MINUTES * 60

\* age_minutes > MAX_AGE_MINUTES, with age_minutes = (now_utc - created_utc) / 60:
\* the division is real division, so the test is on the seconds
TooOld(created_utc, now_utc) == now_utc - created_utc > MAX_AGE_MINUTES * 60

\* text[:500]
Truncate(text, n) == SubSeq(text, 1, IF Len(text) < n THEN Len(text) ELSE n)

PostText(data, post_type) ==
    IF post_type = "post"
    THEN Get(data, "title", "") \o " " \o Get(data, "selftext", "")
    ELSE Get(data, "body", "")

\* process_post: NoValue stands for None
process_post(post_data, post_type, now_utc) ==
    LET data == Get(post_data, "data", << >>)
        text == PostText(data, post_type)
        rel  == is_relevant(text)
    IN  IF TooOld(Get(data, "created_utc", 0), now_utc) THEN NoValue
        ELSE IF ~rel.relevant THEN NoValue
        ELSE [id |-> Get(data, "id", ""),
              type |-> post_type,
              subreddit |-> Get(data, "subreddit", ""),
              \* None for a comment, written "None" here
              title |-> IF post_type = "post" THEN Get(data, "title", "") ELSE "None",
              text |-> Truncate(text, 500),
              author |-> Get(data, "author", ""),
              url |-> "https://reddit.com" \o Get(data, "permalink", ""),
              created_utc |-> Get(data, "created_utc", 0),
              matched_keywords |-> rel.matched,
              score |-> Get(data, "score", 0)]

\* the key made of the id alone, the kind left out
full_id_without_kind(post_type, child) ==
    Get(Get(child, "data", << >>), "id", "")

\* f"post_{post_id}", f"comment_{comment_id}"
full_id(post_type, child) ==
    post_type \o "_" \o Get(Get(child, "data", << >>), "id", "")

\* the body of one of main's two for loops over a page: every record's key goes
\* into new_seen; a record whose key is in seen is skipped; the others go through
\* process_post and are appended if it returns a dict
RECURSIVE ProcessPage(_, _, _, _, _)
ProcessPage(page, post_type, seenKeys, acc, now_utc) ==
    IF page = << >> THEN acc
    ELSE LET key    == full_id(post_type, Head(page))
             result == process_post(Head(page), post_type, now_utc)
             marked == [acc EXCEPT !.new_seen = @ \cup {key}]
         IN  ProcessPage(Tail(page), post_type, seenKeys,
                 IF key \in seenKeys THEN marked
                 ELSE IF result = NoValue THEN marked
                 ELSE [marked EXCEPT !.relevant_posts = Append(@, result)],
                 now_utc)

\* relevant_posts.sort(key=created_utc, reverse=True): a stable sort, so equal
\* keys keep their order; insertion into the sorted prefix, after the elements
\* that are not older
RECURSIVE InsertDesc(_, _)
InsertDesc(sorted, p) ==
    IF sorted = << >> THEN << p >>
    ELSE IF Head(sorted).created_utc >= p.created_utc
         THEN << Head(sorted) >> \o InsertDesc(Tail(sorted), p)
         ELSE << p >> \o sorted

RECURSIVE SortDesc(_)
SortDesc(posts) ==
    IF posts = << >> THEN << >>
    ELSE InsertDesc(SortDesc(SubSeq(posts, 1, Len(posts) - 1)), posts[Len(posts)])

-----------------------------------------------------------------------------
(* What the source API can return: the records that exist upstream.  Each  *)
(* belongs to one channel and one kind; a fetch returns a page of them.    *)

PostAbc ==
    [data |-> [id |-> "abc", subreddit |-> "NYCapartments",
               title |-> "Looking for an apartment in Astoria",
               selftext |-> "any tips for finding listings fast?",
               author |-> "alice", permalink |-> "/r/NYCapartments/comments/abc/",
               score |-> 3, created_utc |-> StartTime - 600]]

\* same source id as PostAbc; 119 minutes old when the first run starts, so exactly
\* 120 minutes old 60 seconds later, and too old after that
CommentAbc ==
    [data |-> [id |-> "abc", subreddit |-> "brooklyn",
               body |-> "Checking StreetEasy for new listings",
               author |-> "bob", permalink |-> "/r/brooklyn/comments/x/_/abc/",
               score |-> 1, created_utc |-> StartTime - 7140]]

PostRoommate ==
    [data |-> [id |-> "p2", subreddit |-> "movingtoNYC",
               title |-> "Looking for a Roommate who loves streeteasy",
               selftext |-> "",
               author |-> "carol", permalink |-> "/r/movingtoNYC/comments/p2/",
               score |-> 0, created_utc |-> StartTime - 300]]

Upstream(post_type, subreddit) ==
    IF post_type = "post"
    THEN (IF subreddit = "NYCapartments" THEN { PostAbc }
          ELSE IF subreddit = "movingtoNYC" THEN { PostRoommate }
          ELSE {})
    ELSE (IF subreddit = "brooklyn" THEN { CommentAbc } ELSE {})

\* the records a listing is tried with returning twice in one page
Repeated == { PostAbc }

\* the pages a listing can return: up to MaxPage records, or one record twice
Pages(records) ==
    UNION { [1..n -> records] : n \in 0..MaxPage }
    \cup { << r, r >> : r \in records \cap Repeated }

FetchOutcomes(post_type, subreddit) ==
    { [ok |-> FALSE] }
    \cup { [ok |-> TRUE, children |-> page] : page \in Pages(Upstream(post_type, subreddit)) }

KeysOf(post_type, page) == { full_id(post_type, page[i]) : i \in 1..Len(page) }

\* the keys of the records a fetch would have returned had it not failed
MissedBy(post_type, subreddit, outcome) ==
    IF outcome.ok THEN {}
    ELSE { full_id(post_type, r) : r \in Upstream(post_type, subreddit) }

\* the seconds that pass between two invocations
Advances == {60, 61}

\* the replies of the classification service tried in a run
RunReplies ==
    { "NONE", "0", "1,0" }

RunResponses == { [ok |-> FALSE] } \cup { [ok |-> TRUE, content |-> r] : r \in RunReplies }

-----------------------------------------------------------------------------
(* main *)

NoRun == [saved |-> FALSE, keys |-> {}, missed |-> {}]

Locals0 ==
    /\ sub = 1
    /\ seen = EmptyLedger
    /\ new_seen = {}
    /\ relevant_posts = << >>
    /\ llmIn = << >>
    /\ llmResp = NoValue
    /\ lastFetch = NoValue
    /\ fetched = {}
    /\ missed = {}
    /\ loaded = NoFile

\* main's locals and the history of the run are gone when the process ends
ResetLocals ==
    /\ sub' = 1
    /\ seen' = EmptyLedger
    /\ new_seen' = {}
    /\ relevant_posts' = << >>
    /\ llmIn' = << >>
    /\ llmResp' = NoValue
    /\ lastFetch' = NoValue
    /\ fetched' = {}
    /\ missed' = {}
    /\ loaded' = NoFile

\* the ledger file before the first run: none, or one that earlier runs filled
\* up to the cap or nearly
InitFiles ==
    { NoFile }
    \cup { [exists |-> TRUE, keys |-> {}, old |-> n] : n \in (5000 - MaxSlack)..5000 }

Init ==
    /\ stateFile \in InitFiles
    /\ outputFile = NoFile
    /\ pc = "idle"
    /\ now = StartTime
    /\ USE_LLM_FILTER \in BOOLEAN
    /\ run = 0
    /\ returned = NoValue
    /\ prevFetched = NoRun
    /\ arg = NoValue
    /\ Locals0

\* the process starts: lines 16-17 and 236-240
StartRun ==
    /\ pc = "idle"
    /\ run < MaxRuns
    /\ run' = run + 1
    /\ now' \in IF run = 0 THEN { now } ELSE { now + d : d \in Advances }
    /\ seen' = load_seen(stateFile)
    /\ loaded' = stateFile
    /\ relevant_posts' = << >>
    /\ new_seen' = {}
    /\ sub' = 1
    /\ pc' = "posts"
    /\ fetched' = {}
    /\ missed' = {}
    /\ lastFetch' = NoValue
    /\ llmIn' = << >>
    /\ llmResp' = NoValue
    /\ returned' = NoValue
    /\ UNCHANGED << arg, stateFile, outputFile, USE_LLM_FILTER, prevFetched >>

\* an exception leaves main: the process ends with a traceback
Abort(kind, outcome) ==
    /\ pc' = "idle"
    /\ prevFetched' = NoRun
    /\ lastFetch' = [sub |-> sub, kind |-> kind, ok |-> outcome.ok, keys |-> {}]
    /\ sub' = 1
    /\ seen' = EmptyLedger
    /\ new_seen' = {}
    /\ relevant_posts' = << >>
    /\ fetched' = {}
    /\ missed' = {}
    /\ loaded' = NoFile
    /\ UNCHANGED << arg, stateFile, outputFile, now, USE_LLM_FILTER, run, returned,
                    llmIn, llmResp >>

\* lines 244-255: the posts of the current channel
FetchPosts(outcome) ==
    /\ pc = "posts"
    /\ LET call  == fetch_subreddit(outcome) IN
       IF call.raised THEN Abort("post", outcome)
       ELSE LET posts == call.value
                acc   == ProcessPage(posts, "post", seen.keys,
                             [new_seen |-> new_seen, relevant_posts |-> relevant_posts],
                             now)
            IN  /\ new_seen' = acc.new_seen
                /\ relevant_posts' = acc.relevant_posts
                /\ fetched' = fetched \cup KeysOf("post", posts)
                /\ missed' = missed \cup MissedBy("post", SUBREDDITS[sub], outcome)
                /\ lastFetch' = [sub |-> sub, kind |-> "post", ok |-> outcome.ok,
                                 keys |-> KeysOf("post", posts)]
                /\ pc' = "comments"
                /\ UNCHANGED << arg, stateFile, outputFile, sub, seen, now, USE_LLM_FILTER,
                                run, returned, llmIn, llmResp, prevFetched, loaded >>

\* the comments loop with the ledger saved after each channel
FetchCommentsSaving(outcome) ==
    /\ pc = "comments"
    /\ LET comments == fetch_comments(outcome).value
           acc      == ProcessPage(comments, "comment", seen.keys,
                           [new_seen |-> new_seen, relevant_posts |-> relevant_posts],
                           now)
       IN  /\ new_seen' = acc.new_seen
           /\ relevant_posts' = acc.relevant_posts
           /\ stateFile' \in save_seen(Update(seen, acc.new_seen))
           /\ fetched' = fetched \cup KeysOf("comment", comments)
           /\ missed' = missed \cup MissedBy("comment", SUBREDDITS[sub], outcome)
           /\ lastFetch' = [sub |-> sub, kind |-> "comment", ok |-> outcome.ok,
                            keys |-> KeysOf("comment", comments)]
           /\ IF sub < Len(SUBREDDITS)
              THEN sub' = sub + 1 /\ pc' = "posts"
              ELSE sub' = sub /\ pc' = "save"
           /\ UNCHANGED << arg, outputFile, seen, now, USE_LLM_FILTER, run,
                           returned, llmIn, llmResp, prevFetched, loaded >>

\* lines 258-269: the comments of the current channel, then the next channel
FetchComments(outcome) ==
    /\ pc = "comments"
    /\ LET call == fetch_comments(outcome) IN
       IF call.raised THEN Abort("comment", outcome)
       ELSE LET comments == call.value
                acc      == ProcessPage(comments, "comment", seen.keys,
                                [new_seen |-> new_seen, relevant_posts |-> relevant_posts],
                                now)
            IN  /\ new_seen' = acc.new_seen
                /\ relevant_posts' = acc.relevant_posts
                /\ fetched' = fetched \cup KeysOf("comment", comments)
                /\ missed' = missed \cup MissedBy("comment", SUBREDDITS[sub], outcome)
                /\ lastFetch' = [sub |-> sub, kind |-> "comment", ok |-> outcome.ok,
                                 keys |-> KeysOf("comment", comments)]
                /\ IF sub < Len(SUBREDDITS)
                   THEN sub' = sub + 1 /\ pc' = "posts"
                   ELSE sub' = sub /\ pc' = "save"
                /\ UNCHANGED << arg, stateFile, outputFile, seen, now, USE_LLM_FILTER, run,
                                returned, llmIn, llmResp, prevFetched, loaded >>

\* lines 272-273
SaveSeen ==
    /\ pc = "save"
    /\ seen' = Update(seen, new_seen)
    /\ stateFile' \in save_seen(seen')
    /\ pc' = "refine"
    /\ lastFetch' = NoValue
    /\ UNCHANGED << arg, outputFile, sub, new_seen, relevant_posts, now, USE_LLM_FILTER,
                    run, returned, llmIn, llmResp, fetched, missed, prevFetched, loaded >>

\* lines 276-280: sort, then llm_filter if there is anything to filter
Refine(resp) ==
    /\ pc = "refine"
    /\ LET sorted == SortDesc(relevant_posts)
           called == sorted # << >> /\ USE_LLM_FILTER
       IN  /\ called => resp \in RunResponses
           /\ ~called => resp = NoValue
           /\ llmIn' = sorted
           /\ llmResp' = resp
           /\ relevant_posts' =
                 IF sorted # << >> THEN llm_filter(sorted, USE_LLM_FILTER, resp)
                 ELSE sorted
    /\ pc' = "write"
    /\ UNCHANGED << arg, stateFile, outputFile, sub, seen, new_seen, now, USE_LLM_FILTER,
                    run, returned, lastFetch, fetched, missed, prevFetched, loaded >>

\* the end of main with the output file opened for writing whatever the list
WriteOutputAlways ==
    /\ pc = "write"
    /\ outputFile' = [exists |-> TRUE, posts |-> relevant_posts]
    /\ returned' = relevant_posts
    /\ pc' = "done"
    /\ UNCHANGED << arg, stateFile, sub, seen, new_seen, relevant_posts, now,
                    USE_LLM_FILTER, run, llmIn, llmResp, lastFetch, fetched, missed,
                    prevFetched, loaded >>

\* lines 283-300: the output file is written if the list is not empty; main returns
WriteOutput ==
    /\ pc = "write"
    /\ outputFile' = IF relevant_posts # << >>
                     THEN [exists |-> TRUE, posts |-> relevant_posts]
                     ELSE outputFile
    /\ returned' = relevant_posts
    /\ pc' = "done"
    /\ UNCHANGED << arg, stateFile, sub, seen, new_seen, relevant_posts, now,
                    USE_LLM_FILTER, run, llmIn, llmResp, lastFetch, fetched, missed,
                    prevFetched, loaded >>

\* the process exits (lines 302-305); its locals are gone
Exit ==
    /\ pc = "done"
    /\ pc' = "idle"
    /\ prevFetched' = [saved |-> TRUE, keys |-> fetched, missed |-> missed]
    /\ ResetLocals
    /\ UNCHANGED << arg, stateFile, outputFile, now, USE_LLM_FILTER, run, returned >>

\* the process dies inside main: killed, or an exception main does not catch
\* (the file reads and writes of load_seen, save_seen and of the output)
Crash ==
    /\ pc \in {"posts", "comments", "save", "refine", "write"}
    /\ pc' = "idle"
    /\ prevFetched' = IF pc \in {"refine", "write"}
                      THEN [saved |-> TRUE, keys |-> fetched, missed |-> missed]
                      ELSE NoRun
    /\ ResetLocals
    /\ UNCHANGED << arg, stateFile, outputFile, now, USE_LLM_FILTER, run, returned >>

Next ==
    \/ StartRun
    \/ \E o \in FetchOutcomes("post", SUBREDDITS[sub]) : FetchPosts(o)
    \/ \E o \in FetchOutcomes("comment", SUBREDDITS[sub]) : FetchComments(o)
    \/ SaveSeen
    \/ \E resp \in RunResponses \cup { NoValue } : Refine(resp)
    \/ WriteOutput
    \/ Exit
    \/ Crash

Spec == Init /\ [][Next]_vars

-----------------------------------------------------------------------------
(* llm_filter on its own: any candidate list, any reply *)

\* a third record, for batches of three different candidates
PostHunt ==
    [data |-> [id |-> "p3", subreddit |-> "astoria",
               title |-> "Apartment hunting",
               selftext |-> "how do I find apartments before they are gone",
               author |-> "erin", permalink |-> "/r/astoria/comments/p3/",
               score |-> 5, created_utc |-> StartTime - 60]]

CandidatePool ==
    { process_post(PostHunt, "post", StartTime),
      process_post(PostAbc, "post", StartTime),
      process_post(CommentAbc, "comment", StartTime) }

Batches == UNION { [1..n -> CandidatePool] : n \in 0..MaxBatch }

ReplyAlphabet == {"0", "1", "2", ",", " "}

RECURSIVE StringsOfLen(_)
StringsOfLen(n) ==
    IF n = 0 THEN { "" }
    ELSE { s \o c : s \in StringsOfLen(n - 1), c \in ReplyAlphabet }

NamedReplies ==
    { "NONE", "none", "None", " NONE\n", "None.", "0,2", "2,0", "0,0", "5", "3",
      "0, 2", "0,\n2", "0,1,2", "12", "I think 0 and 2", "No relevant posts",
      "0,x", "-1", "²" }

AllReplies == UNION { StringsOfLen(n) : n \in 0..MaxReplyLen } \cup NamedReplies

AllResponses == { [ok |-> FALSE] } \cup { [ok |-> TRUE, content |-> r] : r \in AllReplies }

InitRefine ==
    /\ pc = "call"
    /\ llmIn \in Batches
    /\ USE_LLM_FILTER \in BOOLEAN
    /\ llmResp = NoValue
    /\ returned = NoValue
    /\ stateFile = NoFile
    /\ outputFile = NoFile
    /\ now = StartTime
    /\ run = 0
    /\ prevFetched = NoRun
    /\ sub = 1
    /\ seen = EmptyLedger
    /\ new_seen = {}
    /\ relevant_posts = << >>
    /\ lastFetch = NoValue
    /\ fetched = {}
    /\ missed = {}
    /\ loaded = NoFile
    /\ arg = NoValue

\* one call llm_filter(llmIn)
CallLlmFilter(resp) ==
    /\ pc = "call"
    /\ llmResp' = resp
    /\ returned' = llm_filter(llmIn, USE_LLM_FILTER, resp)
    /\ pc' = "called"
    /\ UNCHANGED << arg, stateFile, outputFile, sub, seen, new_seen, relevant_posts, now,
                    USE_LLM_FILTER, run, llmIn, lastFetch, fetched, missed, prevFetched,
                    loaded >>

NextRefine == \E resp \in AllResponses : CallLlmFilter(resp)

SpecRefine == InitRefine /\ [][NextRefine]_vars

-----------------------------------------------------------------------------
(* Claims about llm_filter, checked under SpecRefine *)

Called == pc = "called"

\* the classifier was asked: llm_filter got a non-empty list with classification on
Asked == Called /\ llmIn # << >> /\ USE_LLM_FILTER

\* the reply is the sentinel, as the prompt asks for it, whatever its case and
\* the white space around it
IsSentinel(content) == Upper(Strip(content)) = "NONE"

\* the reply is a comma-separated list of indices: every piece between two commas
\* is, white space aside, a non-empty string of decimal digits
IsIndexList(content) ==
    LET pieces == Split(content, ",") IN
    \A k \in 1..Len(pieces) :
        LET piece == Strip(Remove(pieces[k], " ")) IN
        piece # "" /\ \A i \in 1..Len(piece) : IsAsciiDigit(Char(piece, i))

\* C1: with classification enabled and a non-empty candidate list, llm_filter
\* returns exactly its input, same elements in the same order, when the call
\* fails or when the reply is neither the NONE sentinel nor a comma-separated list
\* of indices.
C1_DegradeToInput ==
    (Asked /\ (~llmResp.ok
               \/ (~IsSentinel(llmResp.content) /\ ~IsIndexList(llmResp.content))))
        => returned = llmIn

\* b is a subsequence of a: b is a with some elements left out
RECURSIVE IsSubsequence(_, _)
IsSubsequence(b, a) ==
    IF b = << >> THEN TRUE
    ELSE IF a = << >> THEN FALSE
    ELSE IF Head(a) = Head(b) THEN IsSubsequence(Tail(b), Tail(a))
    ELSE IsSubsequence(b, Tail(a))

\* C8: whatever the candidate list and the reply, what llm_filter returns is an
\* order-preserving subset of its input: only input candidates, none more often
\* than in the input, in the relative order of the input.
C8_OrderPreservingSubset == Called => IsSubsequence(returned, llmIn)

\* decimal notation of a natural number
RECURSIVE Decimal(_)
Decimal(n) ==
    IF n < 10 THEN Char(AsciiDigits, n + 1)
    ELSE Decimal(n \div 10) \o Char(AsciiDigits, (n % 10) + 1)

RECURSIVE Join(_, _)
Join(idx, sep) ==
    IF Len(idx) = 1 THEN Decimal(idx[1])
    ELSE Decimal(idx[1]) \o sep \o Join(Tail(idx), sep)

\* the index lists a reply is compared with
IndexLists == UNION { [1..n -> {0, 1, 2, 3, 5, 12}] : n \in 1..2 }

\* the candidates at the listed indices that are inside the batch, as listed
AtListed(posts, idx) ==
    LET Inside(i) == i < Len(posts)
        inside == SelectSeq(idx, Inside)
    IN  [k \in 1..Len(inside) |-> posts[inside[k] + 1]]

\* C9: a reply that is a comma-separated list of zero-based indices selects the
\* candidates at the listed indices that are inside the batch ("0,2" of three
\* gives item 0 and item 2); the NONE sentinel selects nothing; an index at or
\* beyond the batch length is ignored ("5" of three gives the empty list), without
\* falling back to the whole input.
C9_RefinerSelection ==
    (Asked /\ llmResp.ok) =>
        /\ llmResp.content = "NONE" => returned = << >>
        /\ \A idx \in IndexLists :
              llmResp.content \in { Join(idx, ","), Join(idx, ", ") }
                  => returned = AtListed(llmIn, idx)
        /\ (Len(llmIn) = 3 /\ llmResp.content = "0,2")
              => returned = << llmIn[1], llmIn[3] >>
        /\ (Len(llmIn) = 3 /\ llmResp.content = "5") => returned = << >>

\* three different candidates and the reply "0,2": the first and the third
C9_Witness ==
    /\ Asked
    /\ llmResp.ok
    /\ llmResp.content = "0,2"
    /\ Len(llmIn) = 3
    /\ Cardinality({ llmIn[1], llmIn[2], llmIn[3] }) = 3
    /\ returned = << llmIn[1], llmIn[3] >>

-----------------------------------------------------------------------------
(* Claims about a run of main, checked under Spec *)

\* save_seen has run in this run
AfterSave == pc \in {"refine", "write", "done"}

LedgerKeys(file) == IF file.exists THEN file.keys ELSE {}

\* the composite key of the record a candidate was made from
KeyOfResult(p) == p.type \o "_" \o p.id

CandidateKeys(posts) == { KeyOfResult(posts[i]) : i \in 1..Len(posts) }

\* C2: when the previous run persisted its ledger and every record the fetches
\* of this run returned was also returned by a fetch of the previous run, this
\* run has no candidate and returns the empty list.
C2_DedupIdempotence ==
    (run >= 2 /\ pc # "idle" /\ prevFetched.saved /\ fetched \subseteq prevFetched.keys)
        => /\ relevant_posts = << >>
           /\ pc = "done" => returned = << >>

\* C3: the key of every record a fetch of this run returned is in the ledger the
\* run persists, whatever became of the record; and no record whose key was in
\* the ledger loaded at the start of the run is among the candidates.
C3_AllFetchedMarkedSeen ==
    /\ AfterSave => fetched \subseteq LedgerKeys(stateFile)
    /\ pc \in {"posts", "comments", "save"}
          => CandidateKeys(relevant_posts) \cap LedgerKeys(loaded) = {}

\* C4: once save_seen has run, the ledger file holds at most 5000 keys.
C4_LedgerBound == AfterSave => (stateFile.exists /\ Size(stateFile) <= 5000)

\* the run ended with more than 5000 keys in seen and the file holds 5000
C4_Witness == AfterSave /\ Size(seen) > 5000 /\ Size(stateFile) = 5000

\* C5: when seen holds more than 5000 keys at the end of a run, the 5000 keys
\* persisted are the most recently inserted ones: the keys observed in this run
\* (at most 5000 of them) are all persisted, and what is dropped was carried
\* over from earlier runs.
C5_MostRecentKept ==
    (AfterSave /\ Size(seen) > 5000)
        => /\ Size(stateFile) = 5000
           /\ new_seen \subseteq LedgerKeys(stateFile)

\* this step is a fetch of the run, and it failed
FailedFetchStep ==
    /\ pc \in {"posts", "comments"}
    /\ lastFetch' # NoValue
    /\ ~lastFetch'.ok

\* C6: a fetch that fails raises nothing and counts as an empty page: the
\* candidates and the keys collected so far stay as they are, no file is touched,
\* and the run goes on with the next fetch, or with the ledger write after the
\* last one.
C6_FetchFailureIsolated ==
    [][ FailedFetchStep =>
           /\ relevant_posts' = relevant_posts
           /\ new_seen' = new_seen
           /\ fetched' = fetched
           /\ seen' = seen
           /\ stateFile' = stateFile
           /\ outputFile' = outputFile
           /\ pc' = IF pc = "posts" THEN "comments"
                    ELSE IF sub < Len(SUBREDDITS) THEN "posts" ELSE "save"
           /\ sub' = IF pc = "comments" /\ sub < Len(SUBREDDITS) THEN sub + 1 ELSE sub
      ]_vars

\* the run reached the ledger write with a candidate, although the fetch of
\* the comments of brooklyn failed
C6_Witness ==
    /\ pc = "save"
    /\ "comment_abc" \in missed
    /\ relevant_posts # << >>

\* this step is a fetch of the run that returned the record r of the given kind
ReturnedNow(post_type, r) ==
    /\ pc \in {"posts", "comments"}
    /\ lastFetch' # NoValue
    /\ lastFetch'.ok
    /\ lastFetch'.kind = post_type
    /\ r \in Upstream(post_type, SUBREDDITS[sub])
    /\ full_id(post_type, r) \in lastFetch'.keys

AgeAtMostThreshold(r) == now - r.data.created_utc <= MAX_AGE_MINUTES * 60

NoNegativeKeyword(post_type, r) ==
    \A k \in 1..Len(SKIP_KEYWORDS) :
        ~Contains(Lower(PostText(r.data, post_type)), SKIP_KEYWORDS[k])

\* C7: a failed fetch puts no key into the ledger: the keys the run persists are
\* keys it loaded or keys of records its fetches returned.  So a record that a
\* fetch returns, whose key is not in the loaded ledger (it was never observed,
\* for instance because its fetch failed in the run before), whose age is at
\* most the threshold and whose text has no negative keyword, becomes a
\* candidate of that run.
C7_CatchUp ==
    /\ [](AfterSave => LedgerKeys(stateFile) \subseteq LedgerKeys(loaded) \cup fetched)
    /\ [][ \A post_type \in {"post", "comment"} :
             \A r \in Upstream(post_type, SUBREDDITS[sub]) :
                (/\ ReturnedNow(post_type, r)
                 /\ full_id(post_type, r) \notin LedgerKeys(loaded)
                 /\ AgeAtMostThreshold(r)
                 /\ NoNegativeKeyword(post_type, r))
                    => full_id(post_type, r) \in CandidateKeys(relevant_posts')
         ]_vars

\* a record whose fetch failed in the previous run, and which that run did not
\* observe, is a candidate of this run
C7_Witness ==
    /\ run >= 2
    /\ prevFetched.saved
    /\ \E k \in prevFetched.missed \ prevFetched.keys : k \in CandidateKeys(relevant_posts)

SortedDesc(posts) ==
    \A i \in 1..(Len(posts) - 1) : posts[i].created_utc >= posts[i + 1].created_utc

\* C10: what main returns, and writes to the output file when it is not empty, is
\* ordered by created_utc, newest first.
C10_OutputSortedDesc ==
    pc = "done" =>
        /\ SortedDesc(returned)
        /\ returned # << >> => (outputFile.exists /\ outputFile.posts = returned)

-----------------------------------------------------------------------------
(* Claims about a whole run, end to end *)

Kinds == {"post", "comment"}

Channels == { SUBREDDITS[i] : i \in 1..Len(SUBREDDITS) }

\* the keys of the fetched records that are new to the loaded ledger, not older
\* than the threshold and free of negative keywords
FreshKeys ==
    { k \in fetched :
        \E post_type \in Kinds : \E s \in Channels : \E r \in Upstream(post_type, s) :
            /\ k = KeyOfResult([type |-> post_type, id |-> r.data.id])
            /\ k \notin LedgerKeys(loaded)
            /\ AgeAtMostThreshold(r)
            /\ NoNegativeKeyword(post_type, r) }

\* C11: with classification disabled, what a run returns is exactly the fetched
\* records whose key is not in the loaded ledger, whose age is at most the
\* threshold and whose text has no negative keyword; it is what the output file
\* holds when it is not empty; and the persisted ledger contains the key of
\* every fetched record.
C11_DisabledEndToEnd ==
    (~USE_LLM_FILTER /\ pc = "done") =>
        /\ CandidateKeys(returned) = FreshKeys
        /\ returned # << >> => (outputFile.exists /\ outputFile.posts = returned)
        /\ fetched \subseteq LedgerKeys(stateFile)

Elements(posts) == { posts[i] : i \in 1..Len(posts) }

\* C12: the key is built from kind and id, so the post and the comment that
\* share the source id "abc" have different keys; and a record that a fetch
\* returns and whose own key is not in the loaded ledger is not skipped, whatever
\* other keys the ledger holds, the key of the record of the other kind with the
\* same id included: it goes through process_post and is appended when
\* process_post returns a result.
C12_CompositeIdentity ==
    /\ [](/\ PostAbc.data.id = CommentAbc.data.id
          /\ full_id("post", PostAbc) # full_id("comment", CommentAbc))
    /\ [][ \A post_type \in Kinds :
             \A r \in Upstream(post_type, SUBREDDITS[sub]) :
                (/\ ReturnedNow(post_type, r)
                 /\ full_id(post_type, r) \notin LedgerKeys(loaded)
                 /\ process_post(r, post_type, now) # NoValue)
                    => process_post(r, post_type, now) \in Elements(relevant_posts')
         ]_vars

\* the ledger loaded by this run holds the key of post abc and not the key of
\* comment abc, and comment abc is a candidate of this run
C12_Witness ==
    /\ pc \in {"posts", "comments", "save"}
    /\ full_id("post", PostAbc) \in LedgerKeys(loaded)
    /\ full_id("comment", CommentAbc) \notin LedgerKeys(loaded)
    /\ process_post(CommentAbc, "comment", now) \in Elements(relevant_posts)


-----------------------------------------------------------------------------
(* is_relevant and process_post on their own: any text, any record, any clock *)

MaxWords == 3        \* longest text, in fragments

\* nothing of main is running while a function is called on its own
NoMain ==
    /\ stateFile = NoFile
    /\ outputFile = NoFile
    /\ now = StartTime
    /\ USE_LLM_FILTER = FALSE
    /\ run = 0
    /\ prevFetched = NoRun
    /\ Locals0

\* fragments texts are made of: negative and positive keywords in several cases,
\* two fragments that make a negative keyword when they meet, a neutral word
Fragments ==
    { "Looking for a Roommate", "SUBLET", "sublease", "Checking StreetEasy",
      "new listings", "room for", "rent", "broker fee", "hello" }

RECURSIVE JoinWords(_)
JoinWords(words) ==
    IF words = << >> THEN ""
    ELSE IF Len(words) = 1 THEN words[1]
    ELSE words[1] \o " " \o JoinWords(Tail(words))

Texts ==
    { JoinWords(w) : w \in UNION { [1..n -> Fragments] : n \in 0..MaxWords } }
    \cup { "looking for a roommate who loves streeteasy",
           "checking streeteasy for new listings" }

InitRelevant ==
    /\ pc = "call"
    /\ arg \in { [text |-> t] : t \in Texts }
    /\ returned = NoValue
    /\ NoMain

\* one call is_relevant(text)
CallIsRelevant ==
    /\ pc = "call"
    /\ returned' = is_relevant(arg.text)
    /\ pc' = "called"
    /\ UNCHANGED << arg, stateFile, outputFile, sub, seen, new_seen, relevant_posts, now,
                    USE_LLM_FILTER, run, llmIn, llmResp, lastFetch, fetched, missed,
                    prevFetched, loaded >>

NextRelevant == CallIsRelevant

SpecRelevant == InitRelevant /\ [][NextRelevant]_vars

\* kw occurs in the text, cases aside
Occurs(kw, text) == Contains(Lower(text), kw)

\* C13: is_relevant returns (False, []) when the lower-cased text contains a
\* negative keyword, whatever positive keywords it contains; otherwise it returns
\* (True, matched), matched being exactly the positive keywords that occur in the
\* lower-cased text, in the order of KEYWORDS, and possibly empty.
C13_KeywordFilter ==
    Called =>
        LET InText(kw) == Occurs(kw, arg.text) IN
        IF \E k \in 1..Len(SKIP_KEYWORDS) : InText(SKIP_KEYWORDS[k])
        THEN returned = [relevant |-> FALSE, matched |-> << >>]
        ELSE returned = [relevant |-> TRUE, matched |-> SelectSeq(KEYWORDS, InText)]

\* a text with a negative keyword and positive ones is rejected with no match
C13_Witness ==
    /\ Called
    /\ arg.text = "looking for a roommate who loves streeteasy"
    /\ returned = [relevant |-> FALSE, matched |-> << >>]


MaxClock == 2        \* seconds after StartTime at which process_post is called on its own

\* the clock values process_post is called at
Clocks == { StartTime + d : d \in 0..MaxClock }

\* ages in seconds of the records process_post is called on: created in the
\* future, just now, ten minutes ago, one second before the threshold, at the
\* threshold, one second and 59 seconds past it, 200 minutes ago
Ages == { -60, 0, 600, 7199, 7200, 7201, 7259, 12000 }

RecordTexts == { "any tips for finding listings fast?", "sublet available now" }

\* a record of the source API of the given kind, without the field created_utc
Undated(post_type, text) ==
    LET common == [id |-> "r1", subreddit |-> "astoria", author |-> "dave",
                   permalink |-> "/r/astoria/comments/r1/", score |-> 2]
        content == IF post_type = "post"
                   THEN [title |-> "Question", selftext |-> text]
                   ELSE [body |-> text]
    IN  [data |-> common @@ content]

\* the same record with the field
Dated(post_type, text, created_utc) ==
    [data |-> Undated(post_type, text).data @@ [created_utc |-> created_utc]]

\* the values of created_utc tried at the clock value n: 0, and n less an age
CreatedAt(n) == { n - a : a \in Ages } \cup { 0 }

ProcessArgs(n) ==
    { [post_data |-> Dated(t, text, c), post_type |-> t, now_utc |-> n] :
        t \in Kinds, text \in RecordTexts, c \in CreatedAt(n) }
    \cup { [post_data |-> Undated(t, text), post_type |-> t, now_utc |-> n] :
             t \in Kinds, text \in RecordTexts }

InitProcess ==
    /\ pc = "call"
    /\ arg \in UNION { ProcessArgs(n) : n \in Clocks }
    /\ returned = NoValue
    /\ NoMain

\* one call process_post(post_data, post_type), the clock reading now_utc
CallProcessPost ==
    /\ pc = "call"
    /\ returned' = process_post(arg.post_data, arg.post_type, arg.now_utc)
    /\ pc' = "called"
    /\ UNCHANGED << arg, stateFile, outputFile, sub, seen, new_seen, relevant_posts, now,
                    USE_LLM_FILTER, run, llmIn, llmResp, lastFetch, fetched, missed,
                    prevFetched, loaded >>

NextProcess == CallProcessPost

SpecProcess == InitProcess /\ [][NextProcess]_vars

\* the record has a created_utc field
HasCreated(post_data) == "created_utc" \in DOMAIN post_data.data

\* the age of the record in seconds, a record without created_utc counting as
\* created at 0
AgeSeconds(post_data, now_utc) ==
    now_utc - (IF HasCreated(post_data) THEN post_data.data.created_utc ELSE 0)

\* C14: process_post returns None for every record whose age is more than 120
\* minutes (more than 7200 seconds: the age in minutes is not rounded); a record
\* of age at most 120 minutes, exactly 120 included, is returned unless its text
\* has a negative keyword; a record whose created_utc is 0 or absent is rejected.
C14_RecencyFilter ==
    Called =>
        LET age == AgeSeconds(arg.post_data, arg.now_utc) IN
        /\ age > MAX_AGE_MINUTES * 60 => returned = NoValue
        /\ age <= MAX_AGE_MINUTES * 60 =>
              (returned = NoValue <=> ~NoNegativeKeyword(arg.post_type, arg.post_data))
        /\ (~HasCreated(arg.post_data) \/ arg.post_data.data.created_utc = 0)
              => returned = NoValue

\* a record exactly 120 minutes old is returned
C14_Witness ==
    /\ Called
    /\ HasCreated(arg.post_data)
    /\ arg.now_utc - arg.post_data.data.created_utc = MAX_AGE_MINUTES * 60
    /\ returned # NoValue
    /\ returned.created_utc = arg.post_data.data.created_utc


-----------------------------------------------------------------------------
(* Claims about the files a run writes, checked under Spec *)

Min(a, b) == IF a < b THEN a ELSE b

\* this step is the ledger write of the run
LedgerWriteStep == pc = "save" /\ pc' = "refine"

\* this step is the end of main: the output write, if any, and the return
OutputStep == pc = "write" /\ pc' = "done"

\* C15: the run that has processed all channels writes the ledger file anew from
\* its seen set: the file holds keys of seen only, all of them up to the cap.
\* The output file changes only at the end of main: when the final list is not
\* empty the file becomes exactly that list, nothing of the earlier content
\* kept; when it is empty the file stays as it was.
C15_ResultWriter ==
    /\ [][ LedgerWriteStep =>
              /\ sub = Len(SUBREDDITS)
              /\ stateFile'.exists
              /\ LedgerKeys(stateFile') \subseteq seen'.keys
              /\ Size(stateFile') = Min(Size(seen'), 5000)
         ]_vars
    /\ [][ IF OutputStep
           THEN /\ relevant_posts # << >>
                     => outputFile' = [exists |-> TRUE, posts |-> relevant_posts]
                /\ relevant_posts = << >> => outputFile' = outputFile
                /\ returned' = relevant_posts
           ELSE outputFile' = outputFile
         ]_vars

\* the second run ends with an empty list and the output of the first run is
\* still in place
C15_Witness ==
    /\ pc = "done"
    /\ run = 2
    /\ returned = << >>
    /\ outputFile.exists
    /\ outputFile.posts # << >>


\* the run stops before its ledger write: the process dies in the loops or at
\* the write itself
StopsEarly == pc \in {"posts", "comments", "save"} /\ pc' = "idle"

\* C16: until the run has processed the posts and the comments of every channel
\* the ledger file is as the run loaded it; the file changes in no other step
\* than the ledger write, which a run makes once, on the file as loaded; a run
\* that stops before that leaves the file exactly as loaded, every key of the
\* earlier runs in it.
C16_LedgerCrashTolerance ==
    /\ [](pc \in {"posts", "comments", "save"} => stateFile = loaded)
    /\ [][ IF LedgerWriteStep
           THEN sub = Len(SUBREDDITS) /\ stateFile = loaded
           ELSE stateFile' = stateFile
         ]_vars
    /\ [][ StopsEarly => (stateFile' = loaded /\ stateFile' = stateFile) ]_vars

\* the second run stopped before its ledger write, and the keys the first run
\* persisted are in the file
C16_Witness ==
    /\ pc = "idle"
    /\ run = 2
    /\ prevFetched = NoRun
    /\ LedgerKeys(stateFile) # {}


\* the run is between its ledger write and the end of main: the classification
\* call or the output write comes next
BeforeOutput == pc \in {"refine", "write"}

\* the candidates the run collected: relevant_posts until llm_filter is called,
\* the list handed to llm_filter afterwards
RunCandidates == IF pc = "refine" THEN relevant_posts ELSE llmIn

OutputKeys == IF outputFile.exists THEN CandidateKeys(outputFile.posts) ELSE {}

\* C17: when the classification call or the output write is about to happen, the
\* ledger file has been written from this run's seen set.  At that point, where a
\* run that stops leaves the files as they are, every candidate of the run has its
\* key in the ledger file and none is in the output file; and no run makes a
\* candidate of a record whose key is in the ledger it loaded.
C17_LedgerBeforeOutput ==
    /\ BeforeOutput => stateFile \in save_seen(seen)
    /\ BeforeOutput => CandidateKeys(RunCandidates) \subseteq LedgerKeys(stateFile)
    /\ BeforeOutput => CandidateKeys(RunCandidates) \cap OutputKeys = {}
    /\ pc \in {"posts", "comments", "save"}
          => CandidateKeys(relevant_posts) \cap LedgerKeys(loaded) = {}


\* no two elements of the list have the same key
NoKeyTwice(posts) ==
    \A i, j \in 1..Len(posts) :
        KeyOfResult(posts[i]) = KeyOfResult(posts[j]) => i = j

\* the ledger file has stayed below the cap up to the start of this run (the
\* file never shrinks, so it is enough that the file this run loaded is below)
BelowCap == Size(load_seen(loaded)) < 5000

\* C18: as long as the ledger file stays below 5000 keys, no key is twice among
\* the candidates a run collects, also when a fetch returns a record twice; and
\* no key of a record that the previous run fetched, and persisted, is among
\* the candidates of this run.
C18_NoItemTwice ==
    (pc \in {"posts", "comments", "save"} /\ BelowCap) =>
        /\ NoKeyTwice(relevant_posts)
        /\ prevFetched.saved => CandidateKeys(relevant_posts) \cap prevFetched.keys = {}


=============================================================================
